---- MODULE Spec2Model ----
(***************************************************************************)
(* Model of sdl_viewer/src/node_drawer.rs: the NodeViewContainer (an LRU   *)
(* cache of node views, the set of requested node ids, and the two mpsc    *)
(* channels it shares with the I/O thread) and the I/O thread itself.      *)
(***************************************************************************)
EXTENDS Integers, Sequences, FiniteSets, TLC

VARIABLES
    max_nodes_in_memory, \* capacity handed to LruCache::new
    node_views,          \* LruCache keys, least recently used first
    requested,           \* FnvHashSet of the node ids the I/O thread is loading
    node_id_channel,     \* mpsc channel caller -> I/O thread (node ids)
    node_data_channel,   \* mpsc channel I/O thread -> caller (node id, node data)
    loader_pc,           \* I/O thread: "recv", "fetch", "fetch_panicked", "send_panicked", "exited"
    loader_node_id,      \* the node id the I/O thread is loading (0: none)
    caller_pc,           \* owner of the container: "alive", "dropped", "panicked" (in a send),
                         \* "view_panicked" (in NodeView::new)
    failed,              \* node ids for which get_node_data returned Err
    seen,                \* largest node id the caller has named so far
    sends,               \* number of node ids sent on node_id_sender so far
    last,                \* the caller's last call: name, argument, result, evicted keys
    used_memory_bytes,   \* used_memory_bytes of the NodeView held under each resident key
    new_node_data,       \* NodeView::new on its own: the octree::NodeData handed to it
    new_node_view        \* NodeView::new on its own: the NodeView it built

vars == <<max_nodes_in_memory, node_views, requested, node_id_channel,
          node_data_channel, loader_pc, loader_node_id, caller_pc, failed,
          seen, sends, last, used_memory_bytes, new_node_data, new_node_view>>

(***************************************************************************)
(* Bounds of the model and constants of the program.                       *)
(***************************************************************************)
\* self.requested.len() < 10 in get_or_request
MaxRequested == 10

\* node ids of the octree beyond MaxRequested
ExtraIds == 1

\* largest max_nodes_in_memory tried
MaxCapacity == 2

\* the caller asks again only for the Window node ids it named most recently
Window == 1

NumIds == MaxRequested + ExtraIds

\* sends on node_id_sender the model follows
MaxSends == NumIds + 1

NodeIds == 1..NumIds

NoNode == 0

Capacities == 1..MaxCapacity

(***************************************************************************)
(* Sequence helpers.                                                       *)
(***************************************************************************)
Range(s) == {s[i] : i \in 1..Len(s)}

RECURSIVE Without(_, _)
Without(s, k) ==
    IF s = <<>> THEN <<>>
    ELSE IF Head(s) = k THEN Without(Tail(s), k)
    ELSE <<Head(s)>> \o Without(Tail(s), k)

Max2(a, b) == IF a >= b THEN a ELSE b

RECURSIVE Iota(_)
Iota(n) == IF n = 0 THEN <<>> ELSE Append(Iota(n - 1), n)

RECURSIVE MaxOf(_)
MaxOf(s) == IF s = <<>> THEN 0 ELSE Max2(Head(s), MaxOf(Tail(s)))

(***************************************************************************)
(* Node data and NodeView::new. A byte buffer is a sequence of bytes; a    *)
(* point index is 0-based, as in the code.                                 *)
(***************************************************************************)
PositionEncodings == {"Uint8", "Uint16", "Float32", "Float64"}

\* the match on position_encoding in NodeView::new
BytesPerVertex(position_encoding) ==
    CASE position_encoding = "Uint8" -> 3
      [] position_encoding = "Uint16" -> 6
      [] position_encoding = "Float32" -> 12
      [] position_encoding = "Float64" -> 24

BytesPerColor == 3

\* a slice that takes the point index for the byte offset
SliceUnscaled(old_data, point_index, bytes_per_vertex) ==
    SubSeq(old_data, point_index + 1, point_index + bytes_per_vertex)

\* old_data[i..i + bytes_per_vertex] with i = point_index * bytes_per_vertex
Slice(old_data, point_index, bytes_per_vertex) ==
    SubSeq(old_data, point_index * bytes_per_vertex + 1,
           point_index * bytes_per_vertex + bytes_per_vertex)

\* the for loop of reshuffle
RECURSIVE ReshuffleLoop(_, _, _)
ReshuffleLoop(new_order, old_data, bytes_per_vertex) ==
    IF new_order = <<>> THEN <<>>
    ELSE Slice(old_data, Head(new_order), bytes_per_vertex)
         \o ReshuffleLoop(Tail(new_order), old_data, bytes_per_vertex)

\* reshuffle: it panics when one of its two assert_eq fails
Reshuffle(new_order, old_data, bytes_per_vertex) ==
    IF Len(new_order) * bytes_per_vertex # Len(old_data)
    THEN [panicked |-> TRUE, new_data |-> <<>>]
    ELSE IF Len(ReshuffleLoop(new_order, old_data, bytes_per_vertex)) # Len(old_data)
    THEN [panicked |-> TRUE, new_data |-> <<>>]
    ELSE [panicked |-> FALSE,
          new_data |-> ReshuffleLoop(new_order, old_data, bytes_per_vertex)]

\* indices.shuffle(&mut rng): the orders of 0..num_points-1 a shuffle can produce
Shuffles(num_points) ==
    {p \in [1..num_points -> 0..(num_points - 1)] :
        \A i, j \in 1..num_points : p[i] = p[j] => i = j}

\* a view that accounts for the position buffer only
UsedBytesPositionOnly(position, color) == Len(position)

\* used_memory_bytes: position.len() + color.len()
UsedBytes(position, color) == Len(position) + Len(color)

NodeViewPanic == [panicked |-> TRUE, position |-> <<>>, color |-> <<>>, used_memory_bytes |-> 0]

\* NodeView::new with the shuffle's outcome `indices`: the two buffers handed to
\* BufferData and used_memory_bytes. It panics when an assert_eq of reshuffle fails and
\* at the bounds check of &position[0] and of &color[0] when the buffer is empty.
NodeViewNew(node_data, indices) ==
    LET position == Reshuffle(indices, node_data.position,
                              BytesPerVertex(node_data.position_encoding))
        color == Reshuffle(indices, node_data.color, BytesPerColor)
    IN IF position.panicked \/ color.panicked THEN NodeViewPanic
       ELSE IF Len(position.new_data) = 0 \/ Len(color.new_data) = 0 THEN NodeViewPanic
       ELSE [panicked |-> FALSE,
             position |-> position.new_data,
             color |-> color.new_data,
             used_memory_bytes |-> UsedBytes(position.new_data, color.new_data)]

\* the bytes of one position record and of one colour record, told apart by a value
PositionRecord(value, bytes_per_vertex) ==
    [j \in 1..bytes_per_vertex |-> IF j = 1 THEN value ELSE j]

ColorRecord(value) == <<value, value, 255>>

RECURSIVE PositionBytes(_, _)
PositionBytes(points, bytes_per_vertex) ==
    IF points = <<>> THEN <<>>
    ELSE PositionRecord(Head(points)[1], bytes_per_vertex)
         \o PositionBytes(Tail(points), bytes_per_vertex)

RECURSIVE ColorBytes(_)
ColorBytes(points) ==
    IF points = <<>> THEN <<>> ELSE ColorRecord(Head(points)[2]) \o ColorBytes(Tail(points))

\* an octree::NodeData whose points are the <<position value, colour value>> pairs given
MakeNodeData(position_encoding, points) ==
    [num_points |-> Len(points),
     position_encoding |-> position_encoding,
     position |-> PositionBytes(points, BytesPerVertex(position_encoding)),
     color |-> ColorBytes(points)]

\* the node of the octree that holds no point
EmptyNode == 5

\* the number of points of a node of the octree: one or two, and none in EmptyNode
NumPoints(node_id) == IF node_id = EmptyNode THEN 0 ELSE 1 + (node_id % 2)

\* octree.get_node_data(&node_id)
OctreeNodeData(node_id) ==
    MakeNodeData(CASE node_id % 4 = 0 -> "Uint8"
                   [] node_id % 4 = 1 -> "Uint16"
                   [] node_id % 4 = 2 -> "Float32"
                   [] node_id % 4 = 3 -> "Float64",
                 [i \in 1..NumPoints(node_id) |-> <<i % 2, node_id % 2>>])

\* thread_rng(): the outcomes of the generator told apart
RngStates == {0, 1}

\* indices.shuffle(&mut rng) for the nodes of the octree: both orders of two points
RngShuffle(num_points, rng) == [i \in 1..num_points |-> ((i - 1) + rng) % num_points]

\* NodeView::new(node_drawer, node_data) for the data of each node and each shuffle
OctreeNodeView ==
    [node_id \in NodeIds |->
        [rng \in RngStates |->
            NodeViewNew(OctreeNodeData(node_id),
                        RngShuffle(OctreeNodeData(node_id).num_points, rng))]]

(***************************************************************************)
(* The lru crate's LruCache, as the container uses it: keys only, least    *)
(* recently used first.                                                    *)
(***************************************************************************)
LruContains(cache, k) == k \in Range(cache)

\* a lookup that leaves the recency order alone
LruGetNoTouch(cache, k) == cache

\* get_mut: a hit moves the key to the most recently used place
LruGet(cache, k) == IF LruContains(cache, k) THEN Append(Without(cache, k), k) ELSE cache

\* a put that evicts the most recently used key instead
LruPutEvictsNewest(cache, cap, k) ==
    IF LruContains(cache, k) THEN Append(Without(cache, k), k)
    ELSE IF Len(cache) = cap THEN Append(SubSeq(cache, 1, Len(cache) - 1), k)
    ELSE Append(cache, k)

\* put(k, _): an existing key is refreshed, a new key evicts the least recently used when full
LruPut(cache, cap, k) ==
    IF LruContains(cache, k) THEN Append(Without(cache, k), k)
    ELSE IF Len(cache) = cap THEN Append(Tail(cache), k)
    ELSE Append(cache, k)

\* the keys a put dropped from the cache (their NodeViews are destroyed)
Evicted(before, after) == SelectSeq(before, LAMBDA k : k \notin Range(after))

(***************************************************************************)
(* The channels.                                                           *)
(***************************************************************************)
\* node_id_receiver lives in the I/O thread's closure: it is dropped when that thread ends
NodeIdReceiverAlive == loader_pc \in {"recv", "fetch"}

\* node_data_receiver and node_id_sender are fields of the container
ContainerAlive == caller_pc = "alive"

\* a receive that waits for a message when none is there (recv instead of try_recv)
RecvWaits(channel) == channel = <<>>

\* try_recv returns at once, with Err(Empty) when no message is there
TryRecvWaits(channel) == FALSE

\* mpsc::channel() is unbounded: send queues the message and returns at once
SendWaits(channel) == FALSE

LoaderPanicked == loader_pc \in {"fetch_panicked", "send_panicked"}

Call(op, arg, ret, sent, evicted) ==
    [op |-> op, arg |-> arg, ret |-> ret, sent |-> sent, evicted |-> evicted]

(***************************************************************************)
(* NodeViewContainer::new                                                  *)
(***************************************************************************)
Init ==
    /\ max_nodes_in_memory \in Capacities
    /\ node_views = <<>>
    /\ requested = {}
    /\ node_id_channel = <<>>
    /\ node_data_channel = <<>>
    /\ loader_pc = "recv"
    /\ loader_node_id = NoNode
    /\ caller_pc = "alive"
    /\ failed = {}
    /\ seen = 0
    /\ sends = 0
    /\ last = Call("new", <<>>, "unit", <<>>, <<>>)
    /\ used_memory_bytes = <<>>
    /\ new_node_data = <<>>
    /\ new_node_view = <<>>

(***************************************************************************)
(* The caller walks the octree: it names a new node id only after all      *)
(* smaller ones, and asks again only for the ones it named most recently.  *)
(***************************************************************************)
Nameable(node_id) == node_id <= seen + 1 /\ node_id > seen - Window

(***************************************************************************)
(* NodeViewContainer::get_or_request                                       *)
(***************************************************************************)
\* an admission test without the duplicate check
AdmitsRepeated(req, node_id) == Cardinality(req) < MaxRequested

\* an admission test whose limit is off by one
AdmitsOneMore(req, node_id) == node_id \notin req /\ Cardinality(req) <= MaxRequested

\* the admission test of get_or_request
Admits(req, node_id) == node_id \notin req /\ Cardinality(req) < MaxRequested

GetOrRequest(node_id) ==
    /\ ContainerAlive
    /\ Nameable(node_id)
    /\ seen' = Max2(seen, node_id)
    /\ IF LruContains(node_views, node_id)
       THEN /\ node_views' = LruGet(node_views, node_id)
            /\ last' = Call("get_or_request", <<node_id>>, "Some", <<>>, <<>>)
            /\ UNCHANGED <<requested, node_id_channel, caller_pc, sends>>
       ELSE IF Admits(requested, node_id)
       THEN /\ requested' = requested \cup {node_id}
            /\ IF NodeIdReceiverAlive
               THEN /\ ~SendWaits(node_id_channel)
                    /\ node_id_channel' = Append(node_id_channel, node_id)
                    /\ sends < MaxSends
                    /\ sends' = sends + 1
                    /\ last' = Call("get_or_request", <<node_id>>, "None", <<node_id>>, <<>>)
                    /\ UNCHANGED caller_pc
               ELSE /\ caller_pc' = "panicked"
                    /\ last' = Call("get_or_request", <<node_id>>, "panic", <<>>, <<>>)
                    /\ UNCHANGED <<node_id_channel, sends>>
            /\ UNCHANGED node_views
       ELSE /\ last' = Call("get_or_request", <<node_id>>, "None", <<>>, <<>>)
            /\ UNCHANGED <<node_views, requested, node_id_channel, caller_pc, sends>>
    /\ UNCHANGED <<new_node_data, new_node_view, used_memory_bytes, max_nodes_in_memory, node_data_channel, loader_pc, loader_node_id, failed>>

(***************************************************************************)
(* NodeViewContainer::request_all                                          *)
(***************************************************************************)
\* an admission test that sends an id again while it is in flight
AdmitsAllInFlight(cache, req, node_id) == ~LruContains(cache, node_id)

\* the admission test of request_all
AdmitsAll(cache, req, node_id) == ~LruContains(cache, node_id) /\ node_id \notin req

\* the loop of request_all over node_ids: the set, the ids sent, and whether a send panicked
RECURSIVE RequestAllLoop(_, _, _, _, _)
RequestAllLoop(node_ids, cache, req, sent, receiver_alive) ==
    IF node_ids = <<>> THEN [requested |-> req, sent |-> sent, panicked |-> FALSE]
    ELSE IF AdmitsAll(cache, req, Head(node_ids))
    THEN IF receiver_alive
         THEN RequestAllLoop(Tail(node_ids), cache, req \cup {Head(node_ids)},
                             Append(sent, Head(node_ids)), receiver_alive)
         ELSE [requested |-> req \cup {Head(node_ids)}, sent |-> sent, panicked |-> TRUE]
    ELSE RequestAllLoop(Tail(node_ids), cache, req, sent, receiver_alive)

RequestLists == {Iota(NumIds), <<NumIds, NumIds - 1, NumIds>>}

RequestAll(node_ids) ==
    /\ ContainerAlive
    /\ LET r == RequestAllLoop(node_ids, node_views, requested, <<>>, NodeIdReceiverAlive)
       IN /\ requested' = r.requested
          /\ r.sent # <<>> => ~SendWaits(node_id_channel)
          /\ node_id_channel' = node_id_channel \o r.sent
          /\ sends + Len(r.sent) <= MaxSends
          /\ sends' = sends + Len(r.sent)
          /\ caller_pc' = IF r.panicked THEN "panicked" ELSE caller_pc
          /\ last' = Call("request_all", node_ids, IF r.panicked THEN "panic" ELSE "unit",
                          r.sent, <<>>)
    /\ seen' = Max2(seen, MaxOf(node_ids))
    /\ UNCHANGED <<new_node_data, new_node_view, used_memory_bytes, max_nodes_in_memory, node_views, node_data_channel, loader_pc,
                   loader_node_id, failed>>

(***************************************************************************)
(* NodeViewContainer::consume_arrived_nodes                                *)
(***************************************************************************)
\* a consume_arrived_nodes that forgets to clear the requested mark
ArrivedKept(req, node_id) == req

\* self.requested.remove(&node_id)
Arrived(req, node_id) == req \ {node_id}

\* what the loop body of consume_arrived_nodes does with one result: the requested mark
\* is cleared, the view is built and put under the key; a panic of NodeView::new ends the call
ConsumeOne(c, cap, node_id, rng) ==
    LET view == OctreeNodeView[node_id][rng]
        cache == LruPut(c.node_views, cap, node_id)
    IN IF view.panicked
       THEN [c EXCEPT !.requested = Arrived(c.requested, node_id), !.panicked = TRUE]
       ELSE [node_views |-> cache,
             requested |-> Arrived(c.requested, node_id),
             evicted |-> c.evicted \o Evicted(c.node_views, cache),
             used_memory_bytes |->
                 [k \in Range(cache) |->
                     IF k = node_id THEN view.used_memory_bytes ELSE c.used_memory_bytes[k]],
             panicked |-> FALSE]

\* the while loop over try_recv: every result in the channel is taken, in order. Results
\* the I/O thread sends while the loop runs are results sent just before the call.
RECURSIVE ConsumeLoop(_, _, _, _)
ConsumeLoop(channel, c, cap, rng) ==
    IF channel = <<>> \/ c.panicked THEN c
    ELSE CHOOSE r \in {ConsumeLoop(Tail(channel), next, cap, rng) :
                          next \in {ConsumeOne(c, cap, Head(channel), rng)}} : TRUE

\* a consume_arrived_nodes that reports an arrival whether or not there was one
ConsumedAnyAlways(channel) == TRUE

\* consumed_any: set by the loop body
ConsumedAny(channel) == channel # <<>>

ConsumeArrivedNodes ==
    /\ ContainerAlive
    /\ ~TryRecvWaits(node_data_channel)
    /\ \E rng \in RngStates :
         LET r == ConsumeLoop(node_data_channel,
                              [node_views |-> node_views, requested |-> requested,
                               evicted |-> <<>>, used_memory_bytes |-> used_memory_bytes,
                               panicked |-> FALSE],
                              max_nodes_in_memory, rng)
         IN /\ node_views' = r.node_views
            /\ requested' = r.requested
            /\ used_memory_bytes' = r.used_memory_bytes
            /\ caller_pc' = IF r.panicked THEN "view_panicked" ELSE caller_pc
            /\ last' = Call("consume_arrived_nodes", <<>>,
                            IF r.panicked THEN "panic"
                            ELSE IF ConsumedAny(node_data_channel) THEN "true" ELSE "false",
                            <<>>, r.evicted)
    /\ node_data_channel' = <<>>
    /\ UNCHANGED <<new_node_data, new_node_view, max_nodes_in_memory, node_id_channel, loader_pc,
                   loader_node_id, failed, seen, sends>>

(***************************************************************************)
(* NodeViewContainer::get_used_memory_bytes reads the container only.      *)
(***************************************************************************)
\* node_views.iter().map(|(_, node_view)| node_view.used_memory_bytes).sum()
RECURSIVE SumUsedMemoryBytes(_, _)
SumUsedMemoryBytes(cache, used) ==
    IF cache = <<>> THEN 0
    ELSE used[Head(cache)] + SumUsedMemoryBytes(Tail(cache), used)

GetUsedMemoryBytes == SumUsedMemoryBytes(node_views, used_memory_bytes)

(***************************************************************************)
(* Dropping the container drops node_id_sender and node_data_receiver.     *)
(***************************************************************************)
DropContainer ==
    /\ ContainerAlive
    /\ caller_pc' = "dropped"
    /\ last' = Call("drop", <<>>, "unit", <<>>, <<>>)
    /\ UNCHANGED <<new_node_data, new_node_view, used_memory_bytes, max_nodes_in_memory, node_views, requested, node_id_channel,
                   node_data_channel, loader_pc, loader_node_id, failed, seen, sends>>

(***************************************************************************)
(* The I/O thread spawned by NodeViewContainer::new.                       *)
(***************************************************************************)
\* a receiver that yields the id sent last
RecvNewest(channel) ==
    [node_id |-> channel[Len(channel)], rest |-> SubSeq(channel, 1, Len(channel) - 1)]

\* the receiver's iterator yields the id sent first
RecvNodeId(channel) == [node_id |-> Head(channel), rest |-> Tail(channel)]

\* a send whose message is lost
SendLost(channel, node_id) == channel

\* a send that overtakes the messages waiting on the channel
SendFirst(channel, node_id) == <<node_id>> \o channel

\* node_data_sender.send((node_id, node_data)) to a live receiver
SendNodeData(channel, node_id) == Append(channel, node_id)

\* for node_id in node_id_receiver: the next queued id
LoaderRecv ==
    /\ loader_pc = "recv"
    /\ node_id_channel # <<>>
    /\ loader_node_id' = RecvNodeId(node_id_channel).node_id
    /\ node_id_channel' = RecvNodeId(node_id_channel).rest
    /\ loader_pc' = "fetch"
    /\ UNCHANGED <<new_node_data, new_node_view, used_memory_bytes, max_nodes_in_memory, node_views, requested, node_data_channel,
                   caller_pc, failed, seen, sends, last>>

\* the iterator ends once the channel is empty and its sender is gone
LoaderExit ==
    /\ loader_pc = "recv"
    /\ node_id_channel = <<>>
    /\ ~ContainerAlive
    /\ loader_pc' = "exited"
    /\ UNCHANGED <<new_node_data, new_node_view, used_memory_bytes, max_nodes_in_memory, node_views, requested, node_id_channel,
                   node_data_channel, loader_node_id, caller_pc, failed, seen, sends, last>>

\* get_node_data returns Ok; the result is sent, and the send is unwrapped
LoaderFetchOk ==
    /\ loader_pc = "fetch"
    /\ IF ContainerAlive
       THEN /\ node_data_channel' = SendNodeData(node_data_channel, loader_node_id)
            /\ loader_pc' = "recv"
            /\ loader_node_id' = NoNode
       ELSE /\ loader_pc' = "send_panicked"
            /\ UNCHANGED <<node_data_channel, loader_node_id>>
    /\ UNCHANGED <<new_node_data, new_node_view, used_memory_bytes, max_nodes_in_memory, node_views, requested, node_id_channel,
                   caller_pc, failed, seen, sends, last>>

\* get_node_data returns Err, which is unwrapped
LoaderFetchErr ==
    /\ loader_pc = "fetch"
    /\ failed' = failed \cup {loader_node_id}
    /\ loader_pc' = "fetch_panicked"
    /\ UNCHANGED <<new_node_data, new_node_view, used_memory_bytes, max_nodes_in_memory, node_views, requested, node_id_channel,
                   node_data_channel, loader_node_id, caller_pc, seen, sends, last>>

Next ==
    \/ \E node_id \in NodeIds : GetOrRequest(node_id)
    \/ \E node_ids \in RequestLists : RequestAll(node_ids)
    \/ ConsumeArrivedNodes
    \/ DropContainer
    \/ LoaderRecv
    \/ LoaderExit
    \/ LoaderFetchOk
    \/ LoaderFetchErr

Spec == Init /\ [][Next]_vars

\* the sends the caller makes in AbsorbSpec
MaxAbsorbSends == 5

\* the program while every fetch succeeds and the caller keeps the container
NextAbsorb ==
    \/ \E node_id \in NodeIds : GetOrRequest(node_id) /\ sends' <= MaxAbsorbSends
    \/ \E node_ids \in RequestLists : RequestAll(node_ids) /\ sends' <= MaxAbsorbSends
    \/ ConsumeArrivedNodes
    \/ LoaderRecv
    \/ LoaderExit
    \/ LoaderFetchOk

\* the I/O thread is scheduled whenever it can take a step, and the caller calls
\* consume_arrived_nodes again and again
AbsorbSpec ==
    /\ Init
    /\ [][NextAbsorb]_vars
    /\ WF_vars(LoaderRecv)
    /\ WF_vars(LoaderFetchOk)
    /\ WF_vars(ConsumeArrivedNodes)

(***************************************************************************)
(* NodeView::new on its own, on a node data of up to MaxPoints points.     *)
(***************************************************************************)
MaxPoints == 4

\* <<position value, colour value>> of a point: two points share the position, the
\* colour, both or neither
Points == {<<0, 0>>, <<0, 1>>, <<1, 0>>}

\* the node data whose buffers hold num_points records of the encoding's size
NodeDatas ==
    {MakeNodeData(position_encoding, points) :
        position_encoding \in PositionEncodings,
        points \in UNION {[1..num_points -> Points] :
                             num_points \in 0..MaxPoints}}

ShufflesOf == [num_points \in 0..MaxPoints |-> Shuffles(num_points)]

InitMat ==
    /\ max_nodes_in_memory = MaxCapacity
    /\ node_views = <<>>
    /\ requested = {}
    /\ node_id_channel = <<>>
    /\ node_data_channel = <<>>
    /\ loader_pc = "recv"
    /\ loader_node_id = NoNode
    /\ caller_pc = "alive"
    /\ failed = {}
    /\ seen = 0
    /\ sends = 0
    /\ last = Call("new", <<>>, "unit", <<>>, <<>>)
    /\ used_memory_bytes = <<>>
    /\ new_node_data \in {<<node_data>> : node_data \in NodeDatas}
    /\ new_node_view = <<>>

\* NodeView::new(node_drawer, node_data), for each order the shuffle can produce
MaterializeView ==
    /\ new_node_data # <<>>
    /\ new_node_view = <<>>
    /\ \E indices \in ShufflesOf[new_node_data[1].num_points] :
          new_node_view' = <<NodeViewNew(new_node_data[1], indices)>>
    /\ UNCHANGED <<new_node_data, used_memory_bytes, max_nodes_in_memory, node_views,
                   requested, node_id_channel, node_data_channel, loader_pc,
                   loader_node_id, caller_pc, failed, seen, sends, last>>

NextMat == MaterializeView

MatSpec == InitMat /\ [][NextMat]_vars

(***************************************************************************)
(* Vocabulary of the properties.                                           *)
(***************************************************************************)
\* every step of the I/O thread changes loader_pc; no call of the caller does
CallerStep == loader_pc' = loader_pc

Called(op) == CallerStep /\ last'.op = op

Resident == Range(node_views)

\* what a call appended to the request channel
Appended == SubSeq(node_id_channel', Len(node_id_channel) + 1, Len(node_id_channel'))

NoDuplicates(s) == \A i, j \in 1..Len(s) : s[i] = s[j] => i = j

(***************************************************************************)
(* C1: at most MaxRequested (10) node ids are in `requested` in every      *)
(* reachable state.                                                        *)
(***************************************************************************)
C1_RequestedAtMostCap == Cardinality(requested) <= MaxRequested

(***************************************************************************)
(* C2: no node id is both in `requested` and resident in `node_views`.     *)
(***************************************************************************)
C2_RequestedNotResident == requested \cap Resident = {}

\* results were consumed while other requests are still in flight
C2_Witness ==
    /\ last.op = "consume_arrived_nodes"
    /\ last.ret = "true"
    /\ requested # {}
    /\ Len(node_views) = max_nodes_in_memory

(***************************************************************************)
(* C3: request_all(ids) applies to each id in turn the admission rule of   *)
(* get_or_request: the id is added to `requested` and sent only if it is   *)
(* not resident, not requested and fewer than 10 ids are requested.        *)
(***************************************************************************)
RECURSIVE SameRuleLoop(_, _, _, _)
SameRuleLoop(node_ids, cache, req, sent) ==
    IF node_ids = <<>> THEN [requested |-> req, sent |-> sent]
    ELSE IF ~LruContains(cache, Head(node_ids)) /\ Head(node_ids) \notin req
            /\ Cardinality(req) < MaxRequested
    THEN SameRuleLoop(Tail(node_ids), cache, req \cup {Head(node_ids)},
                      Append(sent, Head(node_ids)))
    ELSE SameRuleLoop(Tail(node_ids), cache, req, sent)

C3_RequestAllSameRule ==
    [][Called("request_all") /\ last'.ret = "unit" =>
          LET r == SameRuleLoop(last'.arg, node_views, requested, <<>>)
          IN /\ requested' = r.requested
             /\ node_id_channel' = node_id_channel \o r.sent]_vars

(***************************************************************************)
(* C4: a node id that is in `requested` is not sent on the request channel *)
(* again: no call sends an id that was already requested, nor an id twice, *)
(* so a repeated get_or_request(id) sends nothing.                         *)
(***************************************************************************)
C4_NoDuplicateSend ==
    [][CallerStep =>
          /\ \A i \in 1..Len(Appended) : Appended[i] \notin requested
          /\ NoDuplicates(Appended)
          /\ NoDuplicates(node_id_channel')
          /\ (Called("get_or_request") /\ last'.arg[1] \in requested => Appended = <<>>)]_vars

\* get_or_request on an id that is requested already, below the limit: nothing was sent
C4_Witness ==
    /\ last.op = "get_or_request"
    /\ last.ret = "None"
    /\ last.sent = <<>>
    /\ last.arg[1] \in requested
    /\ Cardinality(requested) < MaxRequested
    /\ last.arg[1] \in Range(node_id_channel)

(***************************************************************************)
(* C5: get_or_request on an id that is neither resident nor requested      *)
(* admits it (adds it to `requested`, sends it once) exactly when fewer    *)
(* than 10 ids are requested; otherwise it returns None and changes        *)
(* nothing, and the id is admitted by a later call made below the limit.   *)
(***************************************************************************)
C5_AdmissionUpToCap ==
    [][Called("get_or_request") /\ last'.ret # "panic"
        /\ last'.arg[1] \notin Resident /\ last'.arg[1] \notin requested =>
          /\ last'.ret = "None"
          /\ node_views' = node_views
          /\ IF Cardinality(requested) < MaxRequested
             THEN /\ requested' = requested \cup {last'.arg[1]}
                  /\ node_id_channel' = Append(node_id_channel, last'.arg[1])
             ELSE /\ requested' = requested
                  /\ node_id_channel' = node_id_channel]_vars

\* a get_or_request dropped at the limit: ten ids requested, the eleventh left out
C5_Witness ==
    /\ last.op = "get_or_request"
    /\ last.ret = "None"
    /\ last.sent = <<>>
    /\ last.arg[1] \notin requested
    /\ last.arg[1] \notin Resident
    /\ Cardinality(requested) = MaxRequested

(***************************************************************************)
(* C6: the cache never holds more than max_nodes_in_memory keys, and a     *)
(* consume_arrived_nodes that inserts new ids keeps the most recently used *)
(* keys: each insertion into a full cache evicts exactly one key, the      *)
(* least recently used one (capacity 2, arrivals A, B, C leave B, C).      *)
(***************************************************************************)
\* the last n elements of s
LastN(s, n) == SubSeq(s, Max2(1, Len(s) - n + 1), Len(s))

\* the arrivals are distinct ids that are not resident
NewArrivals(channel) == NoDuplicates(channel) /\ Range(channel) \cap Resident = {}

C6_EvictsLeastRecentlyUsed ==
    /\ [](Len(node_views) <= max_nodes_in_memory)
    /\ [][Called("consume_arrived_nodes") /\ last'.ret # "panic"
            /\ NewArrivals(node_data_channel) =>
            LET all == node_views \o node_data_channel
                kept == LastN(all, max_nodes_in_memory)
            IN /\ node_views' = kept
               /\ last'.evicted = SubSeq(all, 1, Len(all) - Len(kept))
               /\ (Len(node_views) = max_nodes_in_memory /\ Len(node_data_channel) = 1 =>
                     /\ last'.evicted = <<Head(node_views)>>
                     /\ node_views' = Append(Tail(node_views), node_data_channel[1]))]_vars

\* a full cache of capacity 2 took one more arrival and evicted exactly one key
C6_Witness ==
    /\ last.op = "consume_arrived_nodes"
    /\ max_nodes_in_memory = 2
    /\ Len(node_views) = 2
    /\ Len(last.evicted) = 1
    /\ last.evicted[1] \notin Resident

(***************************************************************************)
(* C7: get_or_request on a resident id returns its view and makes the id   *)
(* the most recently used key; when the caller next consumes an arrival    *)
(* of a new id into the full cache (capacity at least 2), the key evicted  *)
(* for it is not that id.                                                  *)
(***************************************************************************)
C7_HitProtectsFromEviction ==
    /\ [][Called("get_or_request") /\ last'.arg[1] \in Resident =>
            /\ last'.ret = "Some"
            /\ node_views'[Len(node_views')] = last'.arg[1]
            /\ Len(node_views') = Len(node_views)
            /\ Range(node_views') = Resident
            /\ UNCHANGED <<requested, node_id_channel>>]_vars
    /\ [][/\ last.op = "get_or_request" /\ last.ret = "Some"
          /\ Called("consume_arrived_nodes")
          /\ NewArrivals(node_data_channel)
          /\ Len(node_views) = max_nodes_in_memory
          /\ max_nodes_in_memory >= 2
          /\ node_data_channel # <<>>
          /\ last'.ret # "panic"
          => /\ last'.evicted # <<>>
             /\ last'.evicted[1] # last.arg[1]
             /\ (Len(node_data_channel) < max_nodes_in_memory =>
                    last.arg[1] \in Range(node_views'))]_vars

\* the caller has just hit a resident id in a full cache and a new id is about to arrive
C7_Witness ==
    /\ last.op = "get_or_request"
    /\ last.ret = "Some"
    /\ Len(node_views) = max_nodes_in_memory
    /\ max_nodes_in_memory >= 2
    /\ node_views[Len(node_views)] = last.arg[1]
    /\ node_data_channel # <<>>
    /\ node_data_channel[1] \notin Resident
    /\ caller_pc = "alive"

(***************************************************************************)
(* C8: a failed fetch leaves the I/O thread alive, so that later requests  *)
(* are still fetched.                                                      *)
(***************************************************************************)
C8_LoaderSurvivesFailedFetch == failed # {} => loader_pc # "fetch_panicked"

(***************************************************************************)
(* C9: a failed fetch of X is reported on the result channel tagged with   *)
(* X, and consuming the report takes X out of `requested`: a failed id     *)
(* that is still requested has its report waiting on the result channel.   *)
(***************************************************************************)
C9_FailureReported ==
    \A node_id \in failed \cap requested : node_id \in Range(node_data_channel)

(***************************************************************************)
(* C10: no send on a closed channel panics: neither the I/O thread's send  *)
(* after the container is dropped, nor the caller's send after the I/O     *)
(* thread has ended.                                                       *)
(***************************************************************************)
C10_NoPanicOnClosedChannel == loader_pc # "send_panicked" /\ caller_pc # "panicked"

(***************************************************************************)
(* C11: once the container is dropped the I/O thread takes no new work:    *)
(* it finishes at most the fetch in progress and starts no fetch for a     *)
(* node id that was still queued at the drop.                              *)
(***************************************************************************)
C11_NoFetchStartsAfterDrop ==
    [][~ContainerAlive => ~(loader_pc = "recv" /\ loader_pc' = "fetch")]_vars

(***************************************************************************)
(* C12: the caller never waits for the I/O thread: whether that thread is  *)
(* idle, inside a fetch or behind on queued requests, each of              *)
(* consume_arrived_nodes, get_or_request and request_all can complete, and *)
(* consume_arrived_nodes does so when no result is there.                  *)
(***************************************************************************)
C12_CallerNeverWaits ==
    ContainerAlive /\ NodeIdReceiverAlive =>
        /\ ENABLED ConsumeArrivedNodes
        /\ \A node_id \in NodeIds :
              Nameable(node_id) /\ sends < MaxSends => ENABLED GetOrRequest(node_id)
        /\ \A node_ids \in RequestLists :
              sends + Len(node_ids) <= MaxSends => ENABLED RequestAll(node_ids)

\* a call returned with no result there, the I/O thread inside a fetch and two requests queued
C12_Witness ==
    /\ last.op = "consume_arrived_nodes"
    /\ last.ret = "false"
    /\ loader_pc = "fetch"
    /\ Len(node_id_channel) >= 2
    /\ node_data_channel = <<>>
    /\ ContainerAlive

(***************************************************************************)
(* C13: while fetches succeed, the I/O thread is scheduled and the caller  *)
(* keeps calling consume_arrived_nodes, every id in `requested` is         *)
(* eventually taken out of it by a consume_arrived_nodes that puts it into *)
(* the cache, with no further call naming the id.                          *)
(***************************************************************************)
\* node_id has left `requested` through a consume_arrived_nodes that put it into the cache
Absorbed(node_id) ==
    /\ node_id \notin requested
    /\ last.op = "consume_arrived_nodes"
    /\ node_id \in Resident \cup Range(last.evicted)

C13_EventuallyAbsorbed ==
    \A node_id \in NodeIds :
        (node_id \in requested) ~> (Absorbed(node_id) \/ ~ContainerAlive)

\* one call absorbed two ids into a cache of capacity 1 while another id is in flight
C13_Witness ==
    /\ last.op = "consume_arrived_nodes"
    /\ last.ret = "true"
    /\ max_nodes_in_memory = 1
    /\ Len(last.evicted) >= 1
    /\ \A node_id \in Resident \cup Range(last.evicted) : Absorbed(node_id)
    /\ requested # {}
    /\ ContainerAlive

(***************************************************************************)
(* C14: for a node data of N points and position encoding e, the view that *)
(* NodeView::new builds has a position buffer of N * stride(e) bytes       *)
(* (stride 3, 6, 12, 24 for Uint8, Uint16, Float32, Float64) and a colour  *)
(* buffer of N * 3 bytes; both are the input's records reordered by one    *)
(* permutation of 0..N-1, so the (position record, colour record) pairs of *)
(* the view are the input's as a multiset (N = 4, Float32: 48 and 12).     *)
(***************************************************************************)
Stride(position_encoding) ==
    CASE position_encoding = "Uint8" -> 3
      [] position_encoding = "Uint16" -> 6
      [] position_encoding = "Float32" -> 12
      [] position_encoding = "Float64" -> 24

\* the k-th record (k from 1) of a buffer of records of `size` bytes
RecordAt(buffer, k, size) == SubSeq(buffer, (k - 1) * size + 1, k * size)

\* the (position record, colour record) pairs of n points
Pairs(position, color, n, stride) ==
    [k \in 1..n |-> <<RecordAt(position, k, stride), RecordAt(color, k, 3)>>]

Count(pairs, pair) == Cardinality({k \in DOMAIN pairs : pairs[k] = pair})

SameMultiset(a, b) ==
    /\ Len(a) = Len(b)
    /\ \A k \in DOMAIN a : Count(a, a[k]) = Count(b, a[k])

C14_ReorderedBuffers ==
    new_node_view # <<>> /\ ~new_node_view[1].panicked =>
        LET node_data == new_node_data[1]
            view == new_node_view[1]
            n == node_data.num_points
            stride == Stride(node_data.position_encoding)
            in_pairs == Pairs(node_data.position, node_data.color, n, stride)
            out_pairs == Pairs(view.position, view.color, n, stride)
        IN /\ Len(view.position) = n * stride
           /\ Len(view.color) = n * 3
           /\ \E p \in ShufflesOf[n] : \A k \in 1..n : out_pairs[k] = in_pairs[p[k] + 1]
           /\ SameMultiset(in_pairs, out_pairs)
           /\ (n = 4 /\ node_data.position_encoding = "Float32" =>
                  Len(view.position) = 48 /\ Len(view.color) = 12)

\* four Float32 points, two of them equal, came out in another order
C14_Witness ==
    /\ new_node_view # <<>>
    /\ ~new_node_view[1].panicked
    /\ new_node_data[1].num_points = 4
    /\ new_node_data[1].position_encoding = "Float32"
    /\ Len(new_node_view[1].position) = 48
    /\ Len(new_node_view[1].color) = 12
    /\ new_node_view[1].position # new_node_data[1].position
    /\ new_node_view[1].color # new_node_data[1].color
    /\ LET in_pairs == Pairs(new_node_data[1].position, new_node_data[1].color, 4, 12)
       IN in_pairs[1] = in_pairs[2] /\ in_pairs[3] # in_pairs[1] /\ in_pairs[4] # in_pairs[3]

(***************************************************************************)
(* C18: NodeView::new never fails on a node data whose buffers match its   *)
(* number of points; for a node of zero points, with empty position and    *)
(* colour buffers, it returns a view with used_memory_bytes = 0.           *)
(***************************************************************************)
C18_MaterializationNeverFails ==
    new_node_view # <<>> =>
        /\ ~new_node_view[1].panicked
        /\ (new_node_data[1].num_points = 0 => new_node_view[1].used_memory_bytes = 0)

(***************************************************************************)
(* C15: in every reachable state get_used_memory_bytes() is the sum, over  *)
(* exactly the resident views, of the length of the view's position buffer *)
(* plus the length of its colour buffer; an evicted view adds nothing.     *)
(***************************************************************************)
\* the bytes of the two buffers of the view of node_id
ViewBytes(node_id) ==
    Len(OctreeNodeData(node_id).position) + Len(OctreeNodeData(node_id).color)

RECURSIVE SumViewBytes(_)
SumViewBytes(node_ids) ==
    IF node_ids = {} THEN 0
    ELSE LET node_id == CHOOSE k \in node_ids : TRUE
         IN ViewBytes(node_id) + SumViewBytes(node_ids \ {node_id})

C15_UsedMemoryIsSumOverResident ==
    /\ DOMAIN used_memory_bytes = Resident
    /\ NoDuplicates(node_views)
    /\ GetUsedMemoryBytes = SumViewBytes(Resident)

\* a view was evicted from a full cache that holds two views of different sizes
C15_Witness ==
    /\ last.op = "consume_arrived_nodes"
    /\ last.evicted # <<>>
    /\ Len(node_views) = 2
    /\ ViewBytes(node_views[1]) # ViewBytes(node_views[2])
    /\ ViewBytes(last.evicted[1]) > 0
    /\ GetUsedMemoryBytes = ViewBytes(node_views[1]) + ViewBytes(node_views[2])

(***************************************************************************)
(* C16: a consume_arrived_nodes that returns has taken every result        *)
(* waiting on the result channel, removed its id from `requested` and put  *)
(* a view for it into the cache; it returns true exactly when it took at   *)
(* least one result, and with no result waiting it returns false and       *)
(* leaves `requested` and the cache as they were.                          *)
(***************************************************************************)
C16_ConsumeAbsorbsArrivals ==
    [][Called("consume_arrived_nodes") /\ last'.ret # "panic" =>
          /\ requested' = requested \ Range(node_data_channel)
          /\ node_data_channel' = <<>>
          /\ \A node_id \in Range(node_data_channel) :
                node_id \in Range(node_views') \cup Range(last'.evicted)
          /\ node_data_channel # <<>> =>
                node_data_channel[Len(node_data_channel)] \in Range(node_views')
          /\ last'.ret \in {"true", "false"}
          /\ (last'.ret = "true") <=> (node_data_channel # <<>>)
          /\ node_data_channel = <<>> =>
                last'.ret = "false" /\ UNCHANGED <<requested, node_views, used_memory_bytes>>]_vars

\* a call took at least two results at once into a cache of capacity 1 and returned true
C16_Witness ==
    /\ last.op = "consume_arrived_nodes"
    /\ last.ret = "true"
    /\ max_nodes_in_memory = 1
    /\ Len(last.evicted) = 2
    /\ Len(node_views) = 1
    /\ requested = {}
    /\ node_data_channel = <<>>
    /\ loader_pc = "recv"
    /\ ContainerAlive

(***************************************************************************)
(* C17: the I/O thread serves the requests one at a time, in the order     *)
(* they were sent: it starts a fetch only when no fetch is in progress,    *)
(* for the id at the head of the request channel; it takes the next id     *)
(* only after sending the result of the fetch before; and each result is   *)
(* appended at the end of the result channel when its fetch completes.     *)
(***************************************************************************)
\* `s` is `t` with some elements added at its end
IsPrefix(t, s) == Len(t) <= Len(s) /\ SubSeq(s, 1, Len(t)) = t

C17_LoaderServesInOrder ==
    /\ [](loader_pc = "recv" => loader_node_id = NoNode)
    /\ [](loader_pc = "fetch" => loader_node_id # NoNode)
    /\ [][/\ (loader_pc' = "fetch" /\ loader_pc # "fetch" =>
                /\ loader_pc = "recv"
                /\ loader_node_id = NoNode
                /\ node_id_channel # <<>>
                /\ loader_node_id' = node_id_channel[1]
                /\ node_id_channel' = Tail(node_id_channel)
                /\ node_data_channel' = node_data_channel)
          /\ (loader_pc = "fetch" /\ loader_pc' = "recv" =>
                /\ node_data_channel' = Append(node_data_channel, loader_node_id)
                /\ node_id_channel' = node_id_channel)
          /\ (loader_pc = "fetch" /\ loader_pc' = "fetch" =>
                loader_node_id' = loader_node_id)
          /\ (CallerStep => IsPrefix(node_id_channel, node_id_channel'))
          /\ (node_data_channel' # node_data_channel =>
                \/ Called("consume_arrived_nodes") /\ node_data_channel' = <<>>
                \/ loader_pc = "fetch" /\ loader_pc' = "recv")]_vars

\* the result of 1 is published, 2 is being fetched and 3 is queued behind it
C17_Witness ==
    /\ node_data_channel = <<1>>
    /\ loader_pc = "fetch"
    /\ loader_node_id = 2
    /\ node_id_channel = <<3>>
    /\ ContainerAlive

(***************************************************************************)
(* C19: as long as no fetch has failed, `requested` is exactly the set of  *)
(* the ids queued on the request channel, being fetched, or waiting on the *)
(* result channel, and each of them occurs there once; so every result     *)
(* that consume_arrived_nodes takes is for an id that is in `requested`    *)
(* and not resident, and no arrival replaces an entry of the cache.        *)
(***************************************************************************)
\* the ids on their way: results waiting, the id being fetched, requests queued
InFlight ==
    node_data_channel
        \o (IF loader_node_id # NoNode THEN <<loader_node_id>> ELSE <<>>)
        \o node_id_channel

C19_RequestedIsInFlight ==
    /\ [](ContainerAlive /\ failed = {} =>
            /\ requested = Range(InFlight)
            /\ NoDuplicates(InFlight)
            /\ Range(node_data_channel) \cap Resident = {})
    /\ [][Called("consume_arrived_nodes") /\ failed = {} =>
            /\ Range(node_data_channel) \subseteq requested
            /\ NewArrivals(node_data_channel)
            /\ (last'.ret # "panic" =>
                   Len(node_views') + Len(last'.evicted)
                       = Len(node_views) + Len(node_data_channel))]_vars

\* ids in all three places at once, after an earlier arrival became resident
C19_Witness ==
    /\ ContainerAlive
    /\ failed = {}
    /\ node_data_channel # <<>>
    /\ loader_node_id # NoNode
    /\ node_id_channel # <<>>
    /\ node_views # <<>>
    /\ Cardinality(requested) = Len(InFlight)

(***************************************************************************)
(* C20: results are consumed in the order in which their ids were          *)
(* admitted: the ids in flight form one queue, to which get_or_request and *)
(* request_all add the ids they send at the tail, which the I/O thread's   *)
(* steps leave as it is, and from which consume_arrived_nodes takes the    *)
(* head part and puts it into the cache in that order.                     *)
(***************************************************************************)
C20_ConsumedInAdmissionOrder ==
    [][/\ (CallerStep /\ last'.op \in {"get_or_request", "request_all"} =>
             /\ InFlight' = InFlight \o Appended
             /\ Appended = last'.sent)
       /\ (~CallerStep => InFlight' = InFlight)
       /\ (Called("consume_arrived_nodes") =>
             /\ InFlight = node_data_channel \o InFlight'
             /\ (last'.ret # "panic" /\ NewArrivals(node_data_channel) =>
                    last'.evicted \o node_views' = node_views \o node_data_channel))]_vars

\* 11 was admitted before 10 and the cache took them in that order, in one call
C20_Witness ==
    /\ last.op = "consume_arrived_nodes"
    /\ last.ret = "true"
    /\ last.evicted = <<>>
    /\ node_views = <<NumIds, NumIds - 1>>
    /\ requested = {}
    /\ ContainerAlive

====
